---- MODULE Spec2Model ----
(***************************************************************************)
(* Model of the water-quality visualizer's CSV core: CSVParser             *)
(* (js/csvParser.js) and the part of the application (js/main.js) that     *)
(* reads a file, loads it into the parser and clears it.                   *)
(*                                                                         *)
(* A JavaScript string is a sequence of one-character strings.  The        *)
(* characters are those of Chars; whitespace is " " and "\n".  A           *)
(* JavaScript number is a record [nan, v]: NaN is [nan |-> TRUE, v |-> 0], *)
(* every other number the model meets is a natural number v.  A cell of a  *)
(* row is a record [type, nan, v, s] with type "number" or "string", as    *)
(* typeof reports it.                                                      *)
(***************************************************************************)
EXTENDS Integers, Sequences, FiniteSets, TLC

VARIABLES
    headers,      \* parser.headers
    data,         \* parser.data
    parsedData,   \* main.js parsedData: NoTable (null) or [headers, data]
    csvString,    \* the text handed to the last parse call
    outcome,      \* how the last parse call ended: NoCall, Returned or the error message
    statsColumn,  \* the column name of the last getColumnStats call displayDataInfo made
    stats,        \* what that call returned
    fieldsIn,     \* the field values the last split line was written from
    lineOut,      \* what parseCSVLine returned for that line
    reads         \* the FileReaders processFile created, in order of creation

vars == <<headers, data, parsedData, csvString, outcome, statsColumn, stats, fieldsIn, lineOut, reads>>

-----------------------------------------------------------------------------
(* Bounds of the model.                                                    *)

\* Longest text handed to a fresh parser (SpecParse).
MaxLen == 6
\* Most data rows of a statistics table (SpecStats).
MaxStatRows == 4
\* Most fields, and longest field, of a formatted line (SpecLine).
MaxFields == 2
MaxFieldLen == 2
\* Largest bound of a filterByRange query.
MaxQuery == 2
\* Most files selected in a session (Spec).
MaxReads == 2

-----------------------------------------------------------------------------
(* Strings.                                                                *)

Digits == {"0", "1", "2", "3", "4", "5", "6", "7", "8", "9"}

DigitValue(c) ==
    CASE c = "0" -> 0 [] c = "1" -> 1 [] c = "2" -> 2 [] c = "3" -> 3
      [] c = "4" -> 4 [] c = "5" -> 5 [] c = "6" -> 6 [] c = "7" -> 7
      [] c = "8" -> 8 [] c = "9" -> 9

\* Every character a modelled string may hold.
Chars == Digits \cup {"x", ",", "\"", " ", "\n", ".", "_", "p", "r", "o", "t"}

IsWhiteSpace(c) == c \in {" ", "\n"}

RECURSIVE TrimStart(_)
TrimStart(s) ==
    IF s # <<>> /\ IsWhiteSpace(Head(s)) THEN TrimStart(Tail(s)) ELSE s

RECURSIVE TrimEnd(_)
TrimEnd(s) ==
    IF s # <<>> /\ IsWhiteSpace(s[Len(s)])
    THEN TrimEnd(SubSeq(s, 1, Len(s) - 1))
    ELSE s

\* String.prototype.trim
trim(s) == TrimEnd(TrimStart(s))

RECURSIVE SplitFrom(_, _, _, _)
SplitFrom(s, sep, i, cur) ==
    IF i > Len(s) THEN <<cur>>
    ELSE IF s[i] = sep THEN <<cur>> \o SplitFrom(s, sep, i + 1, <<>>)
    ELSE SplitFrom(s, sep, i + 1, Append(cur, s[i]))

\* String.prototype.split with a one-character separator: never an empty array.
split(s, sep) == SplitFrom(s, sep, 1, <<>>)

\* All strings over alphabet of length at most n.
StringsUpTo(alphabet, n) == UNION {[1..k -> alphabet] : k \in 0..n}

-----------------------------------------------------------------------------
(* Numbers and cells.                                                      *)

NaN == [nan |-> TRUE, v |-> 0]
Num(n) == [nan |-> FALSE, v |-> n]

RECURSIVE DigitsValue(_, _)
DigitsValue(s, acc) ==
    IF s = <<>> THEN acc ELSE DigitsValue(Tail(s), 10 * acc + DigitValue(Head(s)))

AllDigits(s) == \A i \in 1..Len(s) : s[i] \in Digits

\* The value of hexadecimal digits; of the hexadecimal digits only the decimal
\* ones are characters of the model.
RECURSIVE HexValue(_, _)
HexValue(s, acc) ==
    IF s = <<>> THEN acc ELSE HexValue(Tail(s), 16 * acc + DigitValue(Head(s)))

\* A hexadecimal literal: 0x and at least one digit.
IsHexLiteral(t) ==
    /\ Len(t) >= 3
    /\ t[1] = "0"
    /\ t[2] = "x"
    /\ AllDigits(SubSeq(t, 3, Len(t)))

OctalDigits == {"0", "1", "2", "3", "4", "5", "6", "7"}

RECURSIVE OctalValue(_, _)
OctalValue(s, acc) ==
    IF s = <<>> THEN acc ELSE OctalValue(Tail(s), 8 * acc + DigitValue(Head(s)))

\* An octal literal: 0o and at least one octal digit.
IsOctalLiteral(t) ==
    /\ Len(t) >= 3
    /\ t[1] = "0"
    /\ t[2] = "o"
    /\ \A i \in 3..Len(t) : t[i] \in OctalDigits

\* Number(value), the conversion isNaN applies to its argument, on strings over
\* Chars without ".": whitespace is trimmed, the empty string is 0, a digit
\* string is its decimal value, a hexadecimal or octal literal its value,
\* anything else is NaN.
ToNumber(value) ==
    LET t == trim(value)
    IN IF t = <<>> THEN Num(0)
       ELSE IF AllDigits(t) THEN Num(DigitsValue(t, 0))
       ELSE IF IsHexLiteral(t) THEN Num(HexValue(SubSeq(t, 3, Len(t)), 0))
       ELSE IF IsOctalLiteral(t) THEN Num(OctalValue(SubSeq(t, 3, Len(t)), 0))
       ELSE NaN

\* isNaN(value)
isNaN(value) == ToNumber(value).nan

RECURSIVE DigitPrefix(_)
DigitPrefix(s) ==
    IF s # <<>> /\ Head(s) \in Digits THEN <<Head(s)>> \o DigitPrefix(Tail(s)) ELSE <<>>

\* parseFloat(value) on strings over Chars without ".": leading whitespace is
\* skipped and the longest digit prefix is read (of a hexadecimal or octal
\* literal the 0 alone); no digit at all is NaN.
parseFloat(value) ==
    LET p == DigitPrefix(TrimStart(value))
    IN IF p = <<>> THEN NaN ELSE Num(DigitsValue(p, 0))

NumberCell(n) == [type |-> "number", nan |-> n.nan, v |-> n.v, s |-> <<>>]
StringCell(s) == [type |-> "string", nan |-> FALSE, v |-> 0, s |-> s]

\* row[header] = isNaN(value) ? value : parseFloat(value)
Coerce(value) ==
    IF isNaN(value) THEN StringCell(value) ELSE NumberCell(parseFloat(value))

-----------------------------------------------------------------------------
(* CSVParser.parseCSVLine                                                  *)

\* parseCSVLineFrom without the escaped-quote branch: every " toggles.
RECURSIVE parseCSVLineFromNoEscape(_, _, _, _, _)
parseCSVLineFromNoEscape(line, i, current, insideQuotes, result) ==
    IF i > Len(line) THEN Append(result, trim(current))
    ELSE IF line[i] = "\""
    THEN parseCSVLineFromNoEscape(line, i + 1, current, ~insideQuotes, result)
    ELSE IF line[i] = "," /\ ~insideQuotes
    THEN parseCSVLineFromNoEscape(line, i + 1, <<>>, insideQuotes, Append(result, trim(current)))
    ELSE parseCSVLineFromNoEscape(line, i + 1, Append(current, line[i]), insideQuotes, result)

RECURSIVE parseCSVLineFrom(_, _, _, _, _)
parseCSVLineFrom(line, i, current, insideQuotes, result) ==
    IF i > Len(line) THEN Append(result, trim(current))
    ELSE IF line[i] = "\""
    THEN IF insideQuotes /\ i + 1 <= Len(line) /\ line[i + 1] = "\""
         THEN parseCSVLineFrom(line, i + 2, Append(current, "\""), insideQuotes, result)
         ELSE parseCSVLineFrom(line, i + 1, current, ~insideQuotes, result)
    ELSE IF line[i] = "," /\ ~insideQuotes
    THEN parseCSVLineFrom(line, i + 1, <<>>, insideQuotes, Append(result, trim(current)))
    ELSE parseCSVLineFrom(line, i + 1, Append(current, line[i]), insideQuotes, result)

parseCSVLine(line) == parseCSVLineFrom(line, 1, <<>>, FALSE, <<>>)

-----------------------------------------------------------------------------
(* CSVParser.parse                                                         *)

EmptyError == "CSV file is empty"
NoHeadersError == "No headers found in CSV"
NoDataError == "No valid data rows found in CSV"
Returned == "returned"
NoCall == "no call"

\* The one property name an assignment to a plain object does not create:
\* __proto__ is an accessor of Object.prototype, and its setter ignores a
\* value that is a string or a number.
ProtoName == <<"_", "_", "p", "r", "o", "t", "o", "_", "_">>

\* The forEach over the headers: row[header] is assigned once per header
\* index, in order, so a later equal header overwrites an earlier one, and a
\* header named __proto__ leaves the row without a key of that name.
RECURSIVE BuildRow(_, _, _, _)
BuildRow(hs, values, index, row) ==
    IF index > Len(hs) THEN row
    ELSE BuildRow(hs, values, index + 1,
                  IF hs[index] = ProtoName
                  THEN row
                  ELSE (hs[index] :> Coerce(values[index])) @@ row)

\* ParseRows leaving the loop at a mismatched line (break for continue).
RECURSIVE ParseRowsStopsAtMismatch(_, _, _, _)
ParseRowsStopsAtMismatch(lines, hs, i, rows) ==
    IF i > Len(lines) THEN rows
    ELSE LET line == trim(lines[i])
             values == parseCSVLine(line)
         IN IF line = <<>> THEN ParseRowsStopsAtMismatch(lines, hs, i + 1, rows)
            ELSE IF Len(values) # Len(hs) THEN rows
            ELSE ParseRowsStopsAtMismatch(lines, hs, i + 1,
                                          Append(rows, BuildRow(hs, values, 1, <<>>)))

\* The loop over lines[1..]: i is the 1-based index of the line.
RECURSIVE ParseRows(_, _, _, _)
ParseRows(lines, hs, i, rows) ==
    IF i > Len(lines) THEN rows
    ELSE LET line == trim(lines[i])
             values == parseCSVLine(line)
         IN IF line = <<>> THEN ParseRows(lines, hs, i + 1, rows)
            ELSE IF Len(values) # Len(hs) THEN ParseRows(lines, hs, i + 1, rows)
            ELSE ParseRows(lines, hs, i + 1, Append(rows, BuildRow(hs, values, 1, <<>>)))

\* parse without the check that some row was produced.
parseWithoutRowCheck(this, text) ==
    LET lines == split(trim(text), "\n")
        hs == parseCSVLine(lines[1])
        rows == ParseRows(lines, hs, 2, <<>>)
    IN IF Len(lines) = 0
       THEN [headers |-> this.headers, data |-> this.data, error |-> EmptyError]
       ELSE IF Len(hs) = 0
       THEN [headers |-> hs, data |-> this.data, error |-> NoHeadersError]
       ELSE [headers |-> hs, data |-> rows, error |-> Returned]

\* parse without this.data = []: the rows are pushed after those it held.
parseAppends(this, text) ==
    LET lines == split(trim(text), "\n")
        hs == parseCSVLine(lines[1])
        rows == ParseRows(lines, hs, 2, this.data)
    IN IF Len(lines) = 0
       THEN [headers |-> this.headers, data |-> this.data, error |-> EmptyError]
       ELSE IF Len(hs) = 0
       THEN [headers |-> hs, data |-> this.data, error |-> NoHeadersError]
       ELSE IF Len(rows) = 0
       THEN [headers |-> hs, data |-> rows, error |-> NoDataError]
       ELSE [headers |-> hs, data |-> rows, error |-> Returned]

\* parse(csvString) on a parser whose fields are this.headers, this.data:
\* the fields after the call, and error: Returned or the message thrown.
parse(this, text) ==
    LET lines == split(trim(text), "\n")
        hs == parseCSVLine(lines[1])
        rows == ParseRows(lines, hs, 2, <<>>)
    IN IF Len(lines) = 0
       THEN [headers |-> this.headers, data |-> this.data, error |-> EmptyError]
       ELSE IF Len(hs) = 0
       THEN [headers |-> hs, data |-> this.data, error |-> NoHeadersError]
       ELSE IF Len(rows) = 0
       THEN [headers |-> hs, data |-> rows, error |-> NoDataError]
       ELSE [headers |-> hs, data |-> rows, error |-> Returned]

-----------------------------------------------------------------------------
(* CSVParser.getNumericColumns, getAllColumns, filterByRange               *)

\* typeof row[name] === 'number'; a name that is no key of the row reads as
\* undefined.
IsNumberAt(row, name) == name \in DOMAIN row /\ row[name].type = "number"

\* row[name] as the code reads it: the cell under the key; without the key,
\* Object.prototype for the name __proto__ and undefined for any other.
ObjectCell == [type |-> "object", nan |-> FALSE, v |-> 0, s |-> <<>>]
UndefinedCell == [type |-> "undefined", nan |-> FALSE, v |-> 0, s |-> <<>>]
ReadCell(row, name) ==
    IF name \in DOMAIN row THEN row[name]
    ELSE IF name = ProtoName THEN ObjectCell
    ELSE UndefinedCell

\* getNumericColumns asking every row for a number (every for some).
getNumericColumnsEvery(hs, d) ==
    IF Len(d) = 0 THEN <<>>
    ELSE LET every(header) == \A k \in 1..Len(d) : IsNumberAt(d[k], header)
         IN SelectSeq(hs, every)

getNumericColumns(hs, d) ==
    IF Len(d) = 0 THEN <<>>
    ELSE LET some(header) == \E k \in 1..Len(d) : IsNumberAt(d[k], header)
         IN SelectSeq(hs, some)

getAllColumns(hs) == hs

\* value >= min && value <= max is false for NaN.
filterByRange(d, columnName, min, max) ==
    LET keep(row) == /\ IsNumberAt(row, columnName)
                     /\ ~row[columnName].nan
                     /\ row[columnName].v >= min
                     /\ row[columnName].v <= max
    IN SelectSeq(d, keep)

-----------------------------------------------------------------------------
(* CSVParser.getColumnStats                                                *)

RECURSIVE IntToString(_)
IntToString(n) ==
    LET digit == CHOOSE c \in Digits : DigitValue(c) = n % 10
    IN IF n < 10 THEN <<digit>> ELSE Append(IntToString(n \div 10), digit)

NaNString == <<"N", "a", "N">>

\* 2^e modulo 25.
RECURSIVE Pow2Mod25(_)
Pow2Mod25(e) == IF e = 0 THEN 1 ELSE (2 * Pow2Mod25(e - 1)) % 25

\* The k with 25 * 2^k <= m < 25 * 2^(k+1), for m > 0.
RECURSIVE BinaryExponent(_)
BinaryExponent(m) ==
    IF m >= 50 THEN BinaryExponent(m \div 2) + 1
    ELSE IF m < 25 THEN BinaryExponent(2 * m) - 1
    ELSE 0

\* The double nearest to m / 200 is smaller than m / 200.  A double carries
\* 53 binary digits: scaled to 2^52..2^53 the quotient m / 25 leaves the
\* remainder (m * 2^e) % 25, and it is rounded down when that is under half
\* of 25.  Remainder 0 is a quotient the double holds exactly.
DoubleIsBelow(m) ==
    LET r == ((m % 25) * Pow2Mod25(52 - BinaryExponent(m))) % 25
    IN r # 0 /\ r <= 12

\* (num / den).toFixed(2) for num >= 0, den > 0.  The quotient is a double,
\* and toFixed gives the hundredth nearest to that double, the larger one on
\* a tie.  When num / den lies midway between two hundredths the double
\* decides: the smaller hundredth if it is below the quotient.
ToFixed2(num, den) ==
    LET m == (200 * num) \div den
        midway == (200 * num) % den = 0 /\ m % 2 = 1
        up == (200 * num + den) \div (2 * den)
        q == IF midway /\ DoubleIsBelow(m) THEN up - 1 ELSE up
        f == q % 100
    IN IntToString(q \div 100) \o <<".">> \o IntToString(f \div 10) \o IntToString(f % 10)

NumberToFixed2(n) == IF n.nan THEN NaNString ELSE ToFixed2(n.v, 1)

\* The largest r with r * r <= n, searched in lo..hi.
RECURSIVE SqrtBetween(_, _, _)
SqrtBetween(n, lo, hi) ==
    IF lo >= hi THEN lo
    ELSE LET mid == (lo + hi + 1) \div 2
         IN IF mid * mid <= n THEN SqrtBetween(n, mid, hi) ELSE SqrtBetween(n, lo, mid - 1)

RECURSIVE Sum(_)
Sum(values) == IF values = <<>> THEN 0 ELSE Head(values).v + Sum(Tail(values))

RECURSIVE SumSquares(_)
SumSquares(values) ==
    IF values = <<>> THEN 0 ELSE Head(values).v * Head(values).v + SumSquares(Tail(values))

HasNaN(values) == \E i \in 1..Len(values) : values[i].nan

\* calculateStdev(values, mean).toFixed(2): with n values of sum S and sum of
\* squares Q the variance is (n*Q - S*S) / (n*n); the result is the nearest
\* hundredth to its square root.  With m = n*Q - S*S = s*s + t the root of m
\* is s and j two-hundredths, j the largest with (s + j/200)^2 <= m.
StdevToFixed2(values) ==
    LET n == Len(values)
        m == n * SumSquares(values) - Sum(values) * Sum(values)
        s == SqrtBetween(m, 0, IF m < 46340 THEN m ELSE 46340)
        t == m - s * s
        j == CHOOSE j \in 0..199 :
                 /\ 400 * s * j + j * j <= 40000 * t
                 /\ j < 199 => 400 * s * (j + 1) + (j + 1) * (j + 1) > 40000 * t
        r == 200 * s + j
        k == ((r \div n) + 1) \div 2
    IN ToFixed2(k, 100)

\* The results [...values].sort((a, b) => a - b) can have.  The comparator
\* orders plain numbers, and there is one ascending result.  With a NaN
\* among the values a - b is NaN for some pairs, the comparator is not
\* consistent and the order is the engine's choice: any arrangement.
SortOutcomes(values) ==
    LET n == Len(values)
        arrangements == {[i \in 1..n |-> values[p[i]]] : p \in Permutations(1..n)}
    IN IF HasNaN(values) THEN arrangements
       ELSE {s \in arrangements : \A i \in 1..(n - 1) : s[i].v <= s[i + 1].v}

\* this.data.map(row => row[columnName]).filter(val => typeof val === 'number')
RECURSIVE ColumnValues(_, _)
ColumnValues(d, columnName) ==
    IF d = <<>> THEN <<>>
    ELSE LET rest == ColumnValues(Tail(d), columnName)
         IN IF IsNumberAt(Head(d), columnName)
            THEN <<[nan |-> Head(d)[columnName].nan, v |-> Head(d)[columnName].v]>> \o rest
            ELSE rest

NoStats == [present |-> FALSE]

\* The object returned for the numeric values and one result of the sort.
StatsObject(values, sorted) ==
    [present |-> TRUE,
     count |-> Len(values),
     min |-> sorted[1],
     max |-> sorted[Len(sorted)],
     mean |-> IF HasNaN(values) THEN NaNString ELSE ToFixed2(Sum(values), Len(values)),
     median |-> NumberToFixed2(sorted[(Len(sorted) \div 2) + 1]),
     stdev |-> IF HasNaN(values) THEN NaNString ELSE StdevToFixed2(values)]

\* getColumnStats returning null for a single value too (length <= 1).
getColumnStatsNeedsTwo(d, columnName) ==
    LET values == ColumnValues(d, columnName)
    IN IF Len(values) <= 1 THEN {NoStats}
       ELSE {StatsObject(values, sorted) : sorted \in SortOutcomes(values)}

\* Every value getColumnStats(columnName) can return: null (NoStats) when no
\* cell of the column is a number, otherwise one object per result of the sort.
getColumnStats(d, columnName) ==
    LET values == ColumnValues(d, columnName)
    IN IF Len(values) = 0 THEN {NoStats}
       ELSE {StatsObject(values, sorted) : sorted \in SortOutcomes(values)}

-----------------------------------------------------------------------------
(* main.js                                                                 *)

NoTable == [loaded |-> FALSE, headers |-> <<>>, data |-> <<>>]
Table(h, d) == [loaded |-> TRUE, headers |-> h, data |-> d]

Init ==
    /\ headers = <<>>
    /\ data = <<>>
    /\ parsedData = NoTable
    /\ csvString = <<>>
    /\ outcome = NoCall
    /\ statsColumn = <<>>
    /\ stats = NoStats
    /\ fieldsIn = <<>>
    /\ lineOut = <<>>
    /\ reads = <<>>

\* The statistics panel shows the first StatsShown numeric columns.
StatsShown == 3

\* numericColumns.slice(0, 3) of displayDataInfo.
ShownColumns(hs, d) ==
    LET numericColumns == getNumericColumns(hs, d)
    IN SubSeq(numericColumns, 1, IF Len(numericColumns) < StatsShown
                                   THEN Len(numericColumns) ELSE StatsShown)

\* displayDataInfo on the table parse returned: parser.getColumnStats is
\* called for each shown column in turn; without a numeric column no call is
\* made.  statsColumn and stats keep the last of the calls.
displayDataInfo(hs, d) ==
    LET shown == ShownColumns(hs, d)
    IN IF shown = <<>>
       THEN UNCHANGED <<statsColumn, stats>>
       ELSE /\ statsColumn' = shown[Len(shown)]
            /\ \E r \in getColumnStats(d, shown[Len(shown)]) : stats' = r

\* The body of reader.onload for a file of the given text: when parse returns,
\* parsedData is assigned and the statistics are displayed; when it throws,
\* neither happens.
onload(text) ==
    LET r == parse([headers |-> headers, data |-> data], text)
    IN /\ headers' = r.headers
       /\ data' = r.data
       /\ parsedData' = IF r.error = Returned THEN Table(r.headers, r.data) ELSE parsedData
       /\ csvString' = text
       /\ outcome' = r.error
       /\ IF r.error = Returned
          THEN displayDataInfo(r.headers, r.data)
          ELSE UNCHANGED <<statsColumn, stats>>

\* The readers that are still reading.
Reading == {i \in 1..Len(reads) : reads[i].state = "reading"}

\* processFile(file), from handleFileSelect or handleFileDrop: a new
\* FileReader starts reading; nothing else changes until one of its events
\* fires.  A reader is [text, during, state]: the file's text, the readers
\* still reading when it was created, and "reading", "loaded" or "failed".
processFile(text) ==
    /\ Len(reads) < MaxReads
    /\ reads' = Append(reads, [text |-> text, during |-> Reading, state |-> "reading"])
    /\ UNCHANGED <<headers, data, parsedData, csvString, outcome, statsColumn, stats,
                   fieldsIn, lineOut>>

\* reader.onload of the i-th reader.
readerOnload(i) ==
    /\ reads[i].state = "reading"
    /\ onload(reads[i].text)
    /\ reads' = [reads EXCEPT ![i].state = "loaded"]
    /\ UNCHANGED <<fieldsIn, lineOut>>

\* reader.onerror of the i-th reader: an error message only.
readerOnerror(i) ==
    /\ reads[i].state = "reading"
    /\ reads' = [reads EXCEPT ![i].state = "failed"]
    /\ UNCHANGED <<headers, data, parsedData, csvString, outcome, statsColumn, stats,
                   fieldsIn, lineOut>>

\* The load or the error event of some reader, in any order.
FireLoad == \E i \in 1..Len(reads) : readerOnload(i)
FireError == \E i \in 1..Len(reads) : readerOnerror(i)

clearAllData ==
    /\ headers' = <<>>
    /\ data' = <<>>
    /\ parsedData' = NoTable
    /\ UNCHANGED <<csvString, outcome, statsColumn, stats, fieldsIn, lineOut, reads>>

-----------------------------------------------------------------------------
(* A session (Spec): at most MaxReads files are selected or dropped, each  *)
(* read by a FileReader of its own; the readers' load and error events     *)
(* fire in any order, and the user may clear at any time.                  *)

ReadFiles ==
    {<<"x", "\n", "1">>,                        \* header x, row 1
     <<"1", "\n", "x">>,                        \* header 1, row "x"
     <<",", "\n", ",">>,                        \* two empty headers, one row
     <<"x", ",", "1", "\n", "1", ",", "x">>,    \* two headers, one row
     <<"x", "\n", "1", "\n", "x">>,             \* header x, rows 1 and "x"
     <<"x">>,                                   \* a header and no row: parse throws
     <<>>}                                      \* empty: parse throws

SelectFile == \E text \in ReadFiles : processFile(text)

Next == SelectFile \/ FireLoad \/ FireError \/ clearAllData

Spec == Init /\ [][Next]_vars

-----------------------------------------------------------------------------
(* A fresh parser and one file (SpecParse): every text of at most MaxLen   *)
(* characters, some texts with a header named __proto__ and some with a   *)
(* field written as an octal literal, selected once and then loaded, or    *)
(* lost to a read error.                                                   *)

ParseChars == {"1", "x", ",", " ", "\n", "\""}

ProtoTexts ==
    {ProtoName \o <<"\n", "1">>,
     ProtoName \o <<",", "x", "\n", "1", ",", "x">>,
     <<"x", ",">> \o ProtoName \o <<"\n", "1", ",", "1">>}

OctalTexts ==
    {<<"x", "\n", "0", "o", "1">>,
     <<"x", "\n", "0", "o", "1", "7", "\n", "2">>,
     <<"x", ",", "p", "\n", "0", "o", "7", ",", "1">>,
     <<"x", "\n", "0", "o", "8">>}

Texts == StringsUpTo(ParseChars, MaxLen) \cup ProtoTexts \cup OctalTexts

SelectText == reads = <<>> /\ \E text \in Texts : processFile(text)

NextParse == SelectText \/ FireLoad \/ FireError

SpecParse == Init /\ [][NextParse]_vars

-----------------------------------------------------------------------------
(* Statistics of a one-column table (SpecStats): the column "x" with at    *)
(* most MaxStatRows data lines, each one cell of StatCells; the file is    *)
(* selected once, then loaded or lost to a read error, and may be cleared. *)

\* Numbers in decimal and in hexadecimal notation, a text, an empty field.
StatCells == {<<"1">>, <<"2">>, <<"3">>, <<"0", "x", "1">>, <<"x">>, <<"\"", "\"">>}

RECURSIVE JoinLines(_)
JoinLines(lines) ==
    IF Len(lines) = 1 THEN lines[1]
    ELSE lines[1] \o <<"\n">> \o JoinLines(Tail(lines))

StatTexts ==
    {JoinLines(<<<<"x">>>> \o cells) : cells \in UNION {[1..k -> StatCells] : k \in 0..MaxStatRows}}

SelectStatFile == reads = <<>> /\ \E text \in StatTexts : processFile(text)

NextStats == SelectStatFile \/ FireLoad \/ FireError \/ clearAllData

SpecStats == Init /\ [][NextStats]_vars

-----------------------------------------------------------------------------
(* Splitting a quoted line (SpecLine): at most MaxFields field values of   *)
(* at most MaxFieldLen characters each, none a newline, written as one     *)
(* line by the CSV dialect's quoting rule and handed to parseCSVLine.      *)

FieldChars == {"x", ",", "\"", " "}
Fields == StringsUpTo(FieldChars, MaxFieldLen)
FieldSeqs == UNION {[1..k -> Fields] : k \in 1..MaxFields}

\* Every " of the field doubled.
RECURSIVE DoubleQuotes(_)
DoubleQuotes(f) ==
    IF f = <<>> THEN <<>>
    ELSE (IF Head(f) = "\"" THEN <<"\"", "\"">> ELSE <<Head(f)>>) \o DoubleQuotes(Tail(f))

QuoteField(f) == <<"\"">> \o DoubleQuotes(f) \o <<"\"">>

RECURSIVE FormatLine(_)
FormatLine(fs) ==
    IF Len(fs) = 1 THEN QuoteField(fs[1])
    ELSE QuoteField(fs[1]) \o <<",">> \o FormatLine(Tail(fs))

\* One line is split per run: fieldsIn is empty until then.
SplitLine ==
    /\ fieldsIn = <<>>
    /\ \E fs \in FieldSeqs :
        /\ fieldsIn' = fs
        /\ lineOut' = parseCSVLine(FormatLine(fs))
        /\ UNCHANGED <<headers, data, parsedData, csvString, outcome, statsColumn, stats, reads>>

SpecLine == Init /\ [][SplitLine]_vars

-----------------------------------------------------------------------------
(* What the properties below speak of.                                     *)

Range(f) == {f[i] : i \in DOMAIN f}

\* The lines of a text as parse sees them: the first, and those after it.
LinesOf(text) == split(trim(text), "\n")
HeaderLine(text) == LinesOf(text)[1]
DataLines(text) == Tail(LinesOf(text))

IsBlank(line) == trim(line) = <<>>
FieldsOf(line) == parseCSVLine(trim(line))
HeaderCount(text) == Len(parseCSVLine(HeaderLine(text)))

\* A data line that is not blank and has as many fields as the header line.
IsValidLine(text, line) == ~IsBlank(line) /\ Len(FieldsOf(line)) = HeaderCount(text)

ValidLines(text) ==
    LET valid(line) == IsValidLine(text, line)
    IN SelectSeq(DataLines(text), valid)

\* The last place of a header name among the headers.
IsLastPlace(hs, i) == \A j \in (i + 1)..Len(hs) : hs[j] # hs[i]

PairwiseDistinct(hs) == \A i, j \in 1..Len(hs) : hs[i] = hs[j] => i = j

\* The names and the range the observers are asked about.
StatColumns == {<<"x">>, <<"1">>}
QueryColumns == {<<"x">>, <<"1">>, <<>>}
QueryBounds == 0..MaxQuery

-----------------------------------------------------------------------------
(* C1: with a table loaded, a parse call that throws leaves what            *)
(* getAllColumns, getNumericColumns, getColumnStats and filterByRange       *)
(* report, and parsedData, exactly as they were before the call.            *)
C1_FailedParseLeavesTable ==
    [][(parsedData.loaded /\ FireLoad /\ outcome' # Returned) =>
          /\ getAllColumns(headers') = getAllColumns(headers)
          /\ getNumericColumns(headers', data') = getNumericColumns(headers, data)
          /\ \A c \in QueryColumns : getColumnStats(data', c) = getColumnStats(data, c)
          /\ \A c \in QueryColumns : \A min, max \in QueryBounds :
                 filterByRange(data', c, min, max) = filterByRange(data, c, min, max)
          /\ parsedData' = parsedData]_vars

(* C2: parse of a text that is empty or only whitespace throws the          *)
(* empty-input error 'CSV file is empty', not another error.                *)
C2_BlankInputIsEmptyError ==
    (outcome # NoCall /\ trim(csvString) = <<>>) => outcome = EmptyError

(* C3: in every accepted row a field that is empty after trimming is stored *)
(* as the string "", is not matched by filterByRange, and a column whose    *)
(* fields are all empty has no statistics and is no numeric column.         *)
C3_EmptyFieldStaysString ==
    outcome = Returned =>
        \A i \in 1..Len(headers) :
            IsLastPlace(headers, i) =>
                /\ \A k \in 1..Len(data) :
                       FieldsOf(ValidLines(csvString)[k])[i] = <<>> =>
                           /\ ReadCell(data[k], headers[i]) = StringCell(<<>>)
                           /\ \A min, max \in QueryBounds :
                                  \A row \in Range(filterByRange(data, headers[i], min, max)) :
                                      ReadCell(row, headers[i]) # ReadCell(data[k], headers[i])
                /\ (\A k \in 1..Len(data) : FieldsOf(ValidLines(csvString)[k])[i] = <<>>) =>
                       /\ getColumnStats(data, headers[i]) = {NoStats}
                       /\ headers[i] \notin Range(getNumericColumns(headers, data))

(* C4: after a successful parse every record has exactly the header names  *)
(* as its keys, and so headers.length keys when no two header fields are   *)
(* equal.                                                                   *)
C4_KeysAreHeaderNames ==
    outcome = Returned =>
        \A k \in 1..Len(data) :
            /\ DOMAIN data[k] = Range(headers)
            /\ PairwiseDistinct(headers) => Cardinality(DOMAIN data[k]) = Len(headers)

(* C5: after a successful parse the rows are, one for one and in input      *)
(* order, the data lines that are not blank and have the header's field     *)
(* count: row k holds the coerced fields of the k-th such line under the    *)
(* header names (none under the name __proto__, which is never a key), and  *)
(* blank and mismatched lines are passed over without ending the parse,     *)
(* which returns whenever there is such a line.                             *)
C5_RowsAreValidLines ==
    /\ (outcome # NoCall /\ Len(ValidLines(csvString)) >= 1) => outcome = Returned
    /\ outcome = Returned =>
           /\ headers = parseCSVLine(HeaderLine(csvString))
           /\ Len(data) = Len(ValidLines(csvString))
           /\ \A k \in 1..Len(data) : DOMAIN data[k] = Range(headers) \ {ProtoName}
           /\ \A k \in 1..Len(data) : \A i \in 1..Len(headers) :
                  (IsLastPlace(headers, i) /\ headers[i] # ProtoName) =>
                      data[k][headers[i]] = Coerce(FieldsOf(ValidLines(csvString)[k])[i])

C5_Witness ==
    /\ outcome = Returned
    /\ \E j \in 1..Len(DataLines(csvString)) : IsBlank(DataLines(csvString)[j])
    /\ \E j \in 1..Len(DataLines(csvString)) :
           /\ ~IsBlank(DataLines(csvString)[j])
           /\ ~IsValidLine(csvString, DataLines(csvString)[j])
    /\ Len(data) >= 1
    /\ Len(data) < Len(DataLines(csvString))

(* C6: parse never returns a table without rows: when no line after the     *)
(* header is a valid line (none at all included) it throws 'No valid data   *)
(* rows found in CSV', and whenever it returns rows is not empty.           *)
C6_NoEmptyTable ==
    /\ outcome = Returned =>
           /\ Len(data) >= 1
           /\ parsedData.loaded /\ Len(parsedData.data) >= 1
    /\ (outcome # NoCall /\ Len(ValidLines(csvString)) = 0) => outcome = NoDataError

C6_Witness ==
    /\ outcome = NoDataError
    /\ \E j \in 1..Len(DataLines(csvString)) : ~IsBlank(DataLines(csvString)[j])
    /\ Len(data) = 0
    /\ ~parsedData.loaded

(* C7 as claimed: fields written with the quoting rule (each wrapped in     *)
(* double quotes, every embedded quote doubled, joined by commas) are       *)
(* returned by parseCSVLine exactly as they were.                           *)
C7_RoundTripExact ==
    fieldsIn # <<>> => lineOut = fieldsIn

(* C7 amended: parseCSVLine returns as many fields, in the same order, each *)
(* the original value with its leading and trailing whitespace removed; so  *)
(* the values come back exactly when none begins or ends with whitespace.   *)
C7_RoundTripTrimmed ==
    fieldsIn # <<>> =>
        /\ Len(lineOut) = Len(fieldsIn)
        /\ \A i \in 1..Len(fieldsIn) : lineOut[i] = trim(fieldsIn[i])
        /\ (\A i \in 1..Len(fieldsIn) :
                fieldsIn[i] = <<>>
                \/ (~IsWhiteSpace(Head(fieldsIn[i]))
                    /\ ~IsWhiteSpace(fieldsIn[i][Len(fieldsIn[i])])))
               => lineOut = fieldsIn

C7_Witness ==
    /\ Len(fieldsIn) = 2
    /\ \E i \in 1..2 : "," \in Range(fieldsIn[i])
    /\ \E i \in 1..2 : "\"" \in Range(fieldsIn[i])
    /\ lineOut = fieldsIn

(* C8: for a column with n >= 1 numeric cells getColumnStats returns        *)
(* count n, min the smallest and max the largest numeric cell, and median   *)
(* the cell at index floor(n/2) of the cells in ascending order.            *)
NumericCells(d, c) == {k \in 1..Len(d) : IsNumberAt(d[k], c)}

\* JavaScript's a <= b on numbers: false when either is NaN.
LessEq(a, b) == ~a.nan /\ ~b.nan /\ a.v <= b.v
Less(a, b) == ~a.nan /\ ~b.nan /\ a.v < b.v
CellNumber(d, k, c) == [nan |-> d[k][c].nan, v |-> d[k][c].v]

\* m is the cell at 0-based index idx of the cells in ascending order.
IsAtSortedIndex(d, c, m, idx) ==
    /\ \E k \in NumericCells(d, c) : CellNumber(d, k, c) = m
    /\ \A k \in NumericCells(d, c) : LessEq(m, CellNumber(d, k, c)) \/ LessEq(CellNumber(d, k, c), m)
    /\ Cardinality({k \in NumericCells(d, c) : Less(CellNumber(d, k, c), m)}) <= idx
    /\ Cardinality({k \in NumericCells(d, c) : LessEq(CellNumber(d, k, c), m)}) > idx

C8_StatsOfNumericCells ==
    \A c \in StatColumns : \A r \in getColumnStats(data, c) :
        LET n == Cardinality(NumericCells(data, c))
        IN n >= 1 =>
               /\ r.present
               /\ r.count = n
               /\ IsAtSortedIndex(data, c, r.min, 0)
               /\ IsAtSortedIndex(data, c, r.max, n - 1)
               /\ \E m \in {CellNumber(data, k, c) : k \in NumericCells(data, c)} :
                      /\ IsAtSortedIndex(data, c, m, n \div 2)
                      /\ r.median = NumberToFixed2(m)

(* C9: getColumnStats returns null exactly when no cell of the asked column *)
(* is a number: for a name that is no header, for a column of strings only  *)
(* and for a parser without rows; otherwise it returns a stats object.      *)
C9_NullIffNoNumericCell ==
    \A c \in StatColumns : \A r \in getColumnStats(data, c) :
        /\ r.present <=> (\E k \in 1..Len(data) : c \in DOMAIN data[k] /\ data[k][c].type = "number")
        /\ ~r.present => r = NoStats
        /\ c \notin Range(headers) => r = NoStats
        /\ Len(data) = 0 => r = NoStats
        /\ (\A k \in 1..Len(data) : c \in DOMAIN data[k] /\ data[k][c].type = "string")
               => r = NoStats

\* A loaded table whose column x holds texts only: asked for x, and for the
\* name 1 that is no header, getColumnStats returns null.
C9_Witness ==
    /\ outcome = Returned
    /\ parsedData.loaded
    /\ Len(data) >= 2
    /\ \A k \in 1..Len(data) : data[k][<<"x">>].type = "string"
    /\ getColumnStats(data, <<"x">>) = {NoStats}
    /\ getColumnStats(data, <<"1">>) = {NoStats}

(* C10: getNumericColumns returns, in header order, exactly the headers     *)
(* for which some row holds a number: a column of a number and a text is    *)
(* in it, a column of texts only is not, and the result is a sub-sequence   *)
(* of getAllColumns.                                                        *)
NumericPlaces(hs, d) ==
    {i \in 1..Len(hs) : \E k \in 1..Len(d) : hs[i] \in DOMAIN d[k] /\ d[k][hs[i]].type = "number"}

\* The place among the headers of the j-th numeric column.
PlaceOf(hs, d, j) ==
    CHOOSE i \in NumericPlaces(hs, d) :
        Cardinality({p \in NumericPlaces(hs, d) : p < i}) = j - 1

C10_NumericColumns ==
    LET result == getNumericColumns(headers, data)
    IN /\ Len(result) = Cardinality(NumericPlaces(headers, data))
       /\ \A j \in 1..Len(result) : result[j] = getAllColumns(headers)[PlaceOf(headers, data, j)]

C10_Witness ==
    /\ outcome = Returned
    /\ Len(data) >= 2
    /\ \E i \in 1..Len(headers) :
           /\ \E k \in 1..Len(data) : /\ ReadCell(data[k], headers[i]).type = "number"
                                      /\ ~ReadCell(data[k], headers[i]).nan
           /\ \E k \in 1..Len(data) : ReadCell(data[k], headers[i]).type = "string"
           /\ headers[i] \in Range(getNumericColumns(headers, data))

\* What a parser that has parsed nothing yet makes of a text.
FreshParser == [headers |-> <<>>, data |-> <<>>]
Fresh(text) == parse(FreshParser, text)

\* The loaded table, in parsedData and in the parser, is the one a fresh
\* parser yields for the text.
TableIsFreshOf(text) ==
    /\ headers = Fresh(text).headers
    /\ data = Fresh(text).data
    /\ parsedData = Table(Fresh(text).headers, Fresh(text).data)

\* C11: a parse that succeeds, after whatever parses (successful or failed)
\* and clears came before on the same parser, yields exactly the table a
\* fresh parser yields for the same text: same headers, same rows, nothing
\* of an earlier table merged in.
C11_ParseIndependentOfHistory ==
    [][\A i \in 1..Len(reads) :
           (readerOnload(i) /\ outcome' = Returned)
               => /\ headers' = Fresh(reads[i].text).headers
                  /\ data' = Fresh(reads[i].text).data
                  /\ parsedData' = Table(Fresh(reads[i].text).headers,
                                         Fresh(reads[i].text).data)]_vars

\* Two different files have both been parsed successfully on the one parser,
\* and the table is the fresh parse of the text parsed last.
C11_Witness ==
    /\ Len(reads) = 2
    /\ reads[1].state = "loaded" /\ reads[2].state = "loaded"
    /\ reads[1].text # reads[2].text
    /\ Fresh(reads[1].text).error = Returned
    /\ Fresh(reads[2].text).error = Returned
    /\ outcome = Returned
    /\ Len(data) = 1
    /\ TableIsFreshOf(csvString)

\* C12: file A is selected, then file B while A is still being read; both
\* parse successfully.  Once both reads have completed, the loaded table
\* (parsedData and the parser's headers and rows) is B's, whichever load
\* event fired first.
C12_LastSelectedWins ==
    ( /\ Len(reads) = 2
      /\ 1 \in reads[2].during
      /\ reads[1].state = "loaded" /\ reads[2].state = "loaded"
      /\ Fresh(reads[1].text).error = Returned
      /\ Fresh(reads[2].text).error = Returned
      /\ parsedData.loaded )
        => TableIsFreshOf(reads[2].text)

====
